---- MODULE Spec2Model ----
(***************************************************************************)
(* Model of src/api/chats.ts: the chat API handlers create, post, rename,  *)
(* users, invite and kick, and the session rate limiter create and post    *)
(* share.                                                                  *)
(*                                                                         *)
(* Every handler is an async function.  A request occupies a slot of req   *)
(* and advances one step per action; a step is the synchronous code that   *)
(* runs between two awaits, together with the collaborator call whose      *)
(* completion resumed it.  Steps of different requests interleave freely.  *)
(***************************************************************************)
EXTENDS Integers, Sequences, FiniteSets, TLC

\* ---------------------------------------------------------------- bounds
MaxTicks == 2
MaxOps == 2
MaxAttempts == 2
MaxRooms == 1

\* ------------------------------------------------------------ the domain
Users == {1, 2, 3}
AllUids == Users \cup {4}
Sessions == {1, 2}
Slots == {1, 2}
RoomIds == 1..MaxRooms
DelayChoices == {0, 2}
MaxUsersChoices == {0, 2}
BlockedChoices == {{{1, 3}}}
StartTime == CHOOSE d \in DelayChoices : \A e \in DelayChoices : e <= d
Undefined == -1

ErrTooMany == "[[error:too-many-messages]]"
ErrWrongType == "[[error:wrong-parameter-type]]"
ErrMissing == "Some required data is missing"
ErrRoomFull == "[[error:cant-add-more-users-to-chat-room]]"
ErrNoUser == "[[error:no-user]]"
ErrForbidden == "Forbidden"
ErrNotFound == "NotFound"
ErrHook == "hook-rejected"
ErrStore == "store-failure"

UidLists == {<<>>, <<1>>, <<2>>, <<3>>, <<4>>, <<2, 3>>, <<2, 2>>, <<2, 4>>}
UidsKinds == {"undefined", "string", "array"}
ThrottlePostInputs == {<<1, "hi", TRUE>>, <<2, "hi", TRUE>>, <<1, "", TRUE>>}
HookOutcomes == {"pass", "reject", "rewriteRoom"}
RoomNames == {"Team", "<b>"}

VARIABLES now, config, blocked, limit, session, lastAccepted, throttledAt, rooms, messages, req, resp, started

vars == <<now, config, blocked, limit, session, lastAccepted, throttledAt, rooms, messages, req, resp, started>>

\* ------------------------------------------------------------- helpers
CallerUid(s) == s

Range(q) == {q[k] : k \in 1..Len(q)}

NoRoom == [owner |-> 0, members |-> <<>>, name |-> ""]

RoomExists(r) == r \in RoomIds /\ rooms[r].owner # 0

IdleReq ==
    [op |-> "none", pc |-> "idle", session |-> 0, ip |-> FALSE,
     uidsKind |-> "undefined", uids |-> <<>>, roomId |-> 0, message |-> "",
     pending |-> {}, userCount |-> 0, isOwner |-> FALSE, gotOwner |-> FALSE,
     gotUsers |-> FALSE, members |-> <<>>, users |-> <<>>,
     name |-> "", events |-> <<>>, view |-> NoRoom,
     id |-> 0, at |-> 0, before |-> Undefined, error |-> "", calls |-> <<>>]

\* A request that has returned (err = "") or thrown: its inputs and what it
\* hands back to the caller.
Done(r, err) ==
    [r EXCEPT !.pc = "done", !.error = err, !.pending = {},
              !.isOwner = FALSE, !.gotOwner = FALSE, !.gotUsers = FALSE]

\* ------------------------------------------------------- the rate limiter
\* Faulty variants of the rate limiter: one that restarts the window on a
\* throttled attempt, one that throttles an attempt made exactly when the
\* window ends, one that never throttles, one that never records the time.
rateLimitExceeded_Refresh(last, t, delay) ==
    LET cur == IF last = Undefined THEN 0 ELSE last
    IN  [exceeded |-> t - cur < delay, lastChatMessageTime |-> t]

rateLimitExceeded_Inclusive(last, t, delay) ==
    LET cur == IF last = Undefined THEN 0 ELSE last
    IN  IF t - cur <= delay
        THEN [exceeded |-> TRUE, lastChatMessageTime |-> cur]
        ELSE [exceeded |-> FALSE, lastChatMessageTime |-> t]

rateLimitExceeded_Never(last, t, delay) ==
    [exceeded |-> FALSE, lastChatMessageTime |-> t]

rateLimitExceeded_NoRecord(last, t, delay) ==
    LET cur == IF last = Undefined THEN 0 ELSE last
    IN  [exceeded |-> t - cur < delay, lastChatMessageTime |-> cur]

rateLimitExceeded(last, t, delay) ==
    LET cur == IF last = Undefined THEN 0 ELSE last
    IN  IF t - cur < delay
        THEN [exceeded |-> TRUE, lastChatMessageTime |-> cur]
        ELSE [exceeded |-> FALSE, lastChatMessageTime |-> t]

\* ------------------------------------------------ collaborators (messaging)
canMessageUser(actor, target) == {actor, target} \notin blocked

canMessageRoom(actor, r) == RoomExists(r) /\ actor \in Range(rooms[r].members)

RECURSIVE AddMembers(_, _)
AddMembers(members, uids) ==
    IF uids = <<>> THEN members
    ELSE AddMembers(IF Head(uids) \in Range(members) THEN members
                    ELSE Append(members, Head(uids)), Tail(uids))

RemoveMembers(members, gone) ==
    SelectSeq(members, LAMBDA u : u \notin gone)

newRoom(owner, uids) ==
    [owner |-> owner, members |-> AddMembers(<<owner>>, uids), name |-> ""]

FreeRoomIds == {r \in RoomIds : rooms[r].owner = 0}

isRoomOwner(uid, r) == RoomExists(r) /\ rooms[r].owner = uid

getUsersInRoom(r) == IF RoomExists(r) THEN rooms[r].members ELSE <<>>

getUserCountInRoom(r) == Len(getUsersInRoom(r))

\* ------------------------------------------------------------------ Init
InitWith(delays, maxUsers, blocks, ops) ==
    /\ now = StartTime
    /\ config \in [chatMessageDelay : delays, maximumUsersInChatRoom : maxUsers]
    /\ blocked \in blocks
    /\ limit = ops
    /\ session = [s \in Sessions |-> Undefined]
    /\ lastAccepted = [s \in Sessions |-> Undefined]
    /\ throttledAt = [s \in Sessions |-> Undefined]
    /\ rooms = [r \in RoomIds |-> NoRoom]
    /\ messages = {}
    /\ req = [i \in Slots |-> IdleReq]
    /\ resp = IdleReq
    /\ started = 0

Init == InitWith(DelayChoices, MaxUsersChoices, BlockedChoices, MaxOps)

\* ------------------------------------------------------------- the clock
Tick ==
    /\ now < StartTime + MaxTicks
    /\ now' = now + 1
    /\ UNCHANGED <<config, blocked, limit, session, lastAccepted, throttledAt, rooms, messages, req, resp, started>>

\* ------------------------------------------------------ starting a request
\* A new request takes the lowest slot that holds no request in flight.
Free(i) == req[i].pc = "idle"

\* limit caps the number of requests of a behaviour, started counts them.
CanStart(i) ==
    /\ Free(i)
    /\ \A j \in Slots : j < i => ~Free(j)
    /\ started < limit

\* The request of slot i moves to r.  A request that has returned or thrown
\* leaves its slot; resp is the outcome of the request that finished last,
\* until the next request starts.
Step(i, r) ==
    IF r.pc = "done"
    THEN req' = [req EXCEPT ![i] = IdleReq] /\ resp' = r
    ELSE req' = [req EXCEPT ![i] = r] /\ resp' = resp

Start(i, r) ==
    /\ started' = started + 1
    /\ IF r.pc = "done"
       THEN req' = req /\ resp' = r
       ELSE req' = [req EXCEPT ![i] = r] /\ resp' = IdleReq

\* The handler of r calls the collaborator function f and awaits it.
Call(r, f) == [r EXCEPT !.pc = f, !.calls = Append(r.calls, f)]

\* The record of a new request of session s.
NewReq(op, s) == [IdleReq EXCEPT !.op = op, !.session = s, !.id = started + 1]

\* rateLimitExceeded(caller) as called first thing by create and post: the
\* session is read and written in one synchronous run.
Throttle(s) ==
    rateLimitExceeded(session[s], now, config.chatMessageDelay)

\* The record of a create or post, stamped with the time of the attempt and
\* the session's lastChatMessageTime before it.
Attempt(op, s) == [NewReq(op, s) EXCEPT !.at = now, !.before = session[s]]

\* lastAccepted is the time of the session's last attempt that the rate
\* limiter let through, kept apart from the session field the code writes;
\* throttledAt is the time of the session's last attempt that it rejected.
Throttled(s) ==
    /\ session' = [session EXCEPT ![s] = Throttle(s).lastChatMessageTime]
    /\ lastAccepted' = [lastAccepted EXCEPT ![s] =
                           IF Throttle(s).exceeded THEN @ ELSE now]
    /\ throttledAt' = [throttledAt EXCEPT ![s] =
                          IF Throttle(s).exceeded THEN now ELSE @]

\* ---------------------------------------------------------------- create
CreateBegin(i, s, kind, uids) ==
    /\ CanStart(i)
    /\ kind # "array" => uids = <<>>
    /\ Throttled(s)
    /\ LET r == [Attempt("create", s) EXCEPT !.uidsKind = kind, !.uids = uids]
       IN  Start(i, IF Throttle(s).exceeded THEN Done(r, ErrTooMany)
                    ELSE IF kind # "array" THEN Done(r, ErrWrongType)
                    ELSE IF uids = <<>> THEN Call(r, "newRoom")
                    ELSE [Call(r, "canMessageUser") EXCEPT !.pending = 1..Len(uids)])
    /\ UNCHANGED <<now, config, blocked, limit, rooms, messages>>

\* A faulty Promise.all that waits for every check and ignores rejections.
CheckDone_IgnoreRejection(i, k) ==
    /\ req[i].pc = "canMessageUser"
    /\ k \in req[i].pending
    /\ LET r == req[i]
           left == r.pending \ {k}
       IN  Step(i, IF left # {} THEN [r EXCEPT !.pending = left]
                   ELSE Call([r EXCEPT !.pending = {}],
                             IF r.op = "create" THEN "newRoom" ELSE "addUsersToRoom"))
    /\ UNCHANGED <<now, config, blocked, limit, session, lastAccepted, throttledAt, rooms, messages, started>>

\* One of the concurrent canMessageUser calls of Promise.all completes.  The
\* first rejection rejects the Promise.all and the handler throws; when the
\* last one resolves the handler goes on to its mutation.
CheckDone(i, k) ==
    /\ req[i].pc = "canMessageUser"
    /\ k \in req[i].pending
    /\ LET r == req[i]
           left == r.pending \ {k}
       IN  Step(i, IF ~canMessageUser(CallerUid(r.session), r.uids[k])
                   THEN Done(r, ErrForbidden)
                   ELSE IF left # {} THEN [r EXCEPT !.pending = left]
                   ELSE Call([r EXCEPT !.pending = {}],
                             IF r.op = "create" THEN "newRoom" ELSE "addUsersToRoom"))
    /\ UNCHANGED <<now, config, blocked, limit, session, lastAccepted, throttledAt, rooms, messages, started>>

\* messaging.newRoom and the getRoomData that follows it.
CreateNewRoom(i) ==
    /\ req[i].pc = "newRoom"
    /\ FreeRoomIds # {}
    /\ LET r == req[i]
           id == CHOOSE x \in FreeRoomIds : \A y \in FreeRoomIds : x <= y
       IN  /\ rooms' = [rooms EXCEPT ![id] = newRoom(CallerUid(r.session), r.uids)]
           /\ Step(i, Call([r EXCEPT !.roomId = id], "getRoomData"))
    /\ UNCHANGED <<now, config, blocked, limit, session, lastAccepted, throttledAt, messages, started>>

CreateGetRoomData(i) ==
    /\ req[i].pc = "getRoomData"
    /\ Step(i, Done([req[i] EXCEPT !.members = rooms[req[i].roomId].members], ""))
    /\ UNCHANGED <<now, config, blocked, limit, session, lastAccepted, throttledAt, rooms, messages, started>>

\* ------------------------------------------------------------------ post
PostBegin(i, s, roomId, message, ip) ==
    /\ CanStart(i)
    /\ Throttled(s)
    /\ LET r == [Attempt("post", s) EXCEPT !.roomId = roomId, !.message = message,
                                           !.ip = ip]
       IN  Start(i, IF Throttle(s).exceeded THEN Done(r, ErrTooMany)
                    ELSE Call(r, "hooks.fire"))
    /\ UNCHANGED <<now, config, blocked, limit, rooms, messages>>

\* plugins.hooks.fire resolves with the (possibly rewritten) data or rejects;
\* the handler then validates the fields and calls canMessageRoom.
FireHook(outcome, roomId) ==
    IF outcome = "rewriteRoom" THEN (IF roomId = 1 THEN 2 ELSE 1) ELSE roomId

\* A faulty post that goes from the hook to canMessageRoom without looking at
\* the fields.
PostHook_NoValidation(i, outcome) ==
    /\ req[i].pc = "hooks.fire"
    /\ LET r == req[i]
           d == [r EXCEPT !.roomId = FireHook(outcome, r.roomId)]
       IN  Step(i, IF outcome = "reject" THEN Done(r, ErrHook)
                   ELSE Call(d, "canMessageRoom"))
    /\ UNCHANGED <<now, config, blocked, limit, session, lastAccepted, throttledAt, rooms, messages, started>>

PostHook(i, outcome) ==
    /\ req[i].pc = "hooks.fire"
    /\ LET r == req[i]
           d == [r EXCEPT !.roomId = FireHook(outcome, r.roomId)]
       IN  Step(i, IF outcome = "reject" THEN Done(r, ErrHook)
                   ELSE IF d.roomId = 0 \/ d.message = "" \/ ~d.ip THEN Done(d, ErrMissing)
                   ELSE Call(d, "canMessageRoom"))
    /\ UNCHANGED <<now, config, blocked, limit, session, lastAccepted, throttledAt, rooms, messages, started>>

PostCanMessageRoom(i) ==
    /\ req[i].pc = "canMessageRoom"
    /\ LET r == req[i]
       IN  Step(i, IF ~canMessageRoom(CallerUid(r.session), r.roomId)
                   THEN Done(r, ErrForbidden)
                   ELSE Call(r, "sendMessage"))
    /\ UNCHANGED <<now, config, blocked, limit, session, lastAccepted, throttledAt, rooms, messages, started>>

\* A faulty post that notifies and marks online whether or not the message
\* was persisted.
PostSendMessage_NotifyAlways(i, ok) ==
    /\ req[i].pc = "sendMessage"
    /\ LET r == [req[i] EXCEPT !.calls = req[i].calls \o
                                 <<"notifyUsersInRoom", "updateOnlineUsers">>]
       IN  IF ok
           THEN /\ messages' = messages \cup
                       {[uid |-> CallerUid(r.session), roomId |-> r.roomId,
                         content |-> r.message]}
                /\ Step(i, Done(r, ""))
           ELSE /\ messages' = messages
                /\ Step(i, Done(r, ErrStore))
    /\ UNCHANGED <<now, config, blocked, limit, session, lastAccepted, throttledAt, rooms, started>>

\* messaging.sendMessage persists the message or fails; on success the handler
\* notifies the room, marks the sender online and returns.
PostSendMessage(i, ok) ==
    /\ req[i].pc = "sendMessage"
    /\ LET r == req[i]
       IN  IF ok
           THEN /\ messages' = messages \cup
                       {[uid |-> CallerUid(r.session), roomId |-> r.roomId,
                         content |-> r.message]}
                /\ Step(i, Done([r EXCEPT !.calls = r.calls \o
                                 <<"notifyUsersInRoom", "updateOnlineUsers">>], ""))
           ELSE /\ messages' = messages
                /\ Step(i, Done(r, ErrStore))
    /\ UNCHANGED <<now, config, blocked, limit, session, lastAccepted, throttledAt, rooms, started>>

\* ---------------------------------------------------------------- rename
\* validator.escape on the names of RoomNames.
escape(str) == IF str = "<b>" THEN "&lt;b&gt;" ELSE str

RenameBegin(i, s, roomId, name) ==
    /\ CanStart(i)
    /\ Start(i, Call([NewReq("rename", s) EXCEPT !.roomId = roomId, !.name = name],
                    "renameRoom"))
    /\ UNCHANGED <<now, config, blocked, limit, session, lastAccepted, throttledAt, rooms, messages>>

\* A faulty rename that goes on to notify when renameRoom has failed.
RenameRoom_IgnoreFailure(i, ok) ==
    /\ req[i].pc = "renameRoom"
    /\ LET r == req[i]
       IN  IF ~RoomExists(r.roomId)
           THEN rooms' = rooms /\ Step(i, Done(r, ErrNotFound))
           ELSE IF ~ok
           THEN rooms' = rooms /\ Step(i, Call(r, "getUidsInRoom"))
           ELSE /\ rooms' = [rooms EXCEPT ![r.roomId].name = r.name]
                /\ Step(i, Call(r, "getUidsInRoom"))
    /\ UNCHANGED <<now, config, blocked, limit, session, lastAccepted, throttledAt, messages, started>>

\* messaging.renameRoom persists the name or fails.
RenameRoom(i, ok) ==
    /\ req[i].pc = "renameRoom"
    /\ LET r == req[i]
       IN  IF ~RoomExists(r.roomId)
           THEN rooms' = rooms /\ Step(i, Done(r, ErrNotFound))
           ELSE IF ~ok
           THEN rooms' = rooms /\ Step(i, Done(r, ErrStore))
           ELSE /\ rooms' = [rooms EXCEPT ![r.roomId].name = r.name]
                /\ Step(i, Call(r, "getUidsInRoom"))
    /\ UNCHANGED <<now, config, blocked, limit, session, lastAccepted, throttledAt, messages, started>>

\* messaging.getUidsInRoom resolves; the handler emits the event to the uids
\* it got and calls loadRoom.
RenameGetUidsInRoom(i) ==
    /\ req[i].pc = "getUidsInRoom"
    /\ LET r == req[i]
           uids == getUsersInRoom(r.roomId)
           eventData == [roomId |-> r.roomId, newName |-> escape(r.name)]
           emitted == [r EXCEPT !.members = uids,
                                !.events = Append(r.events,
                                    [event |-> "event:chats.roomRename",
                                     data |-> eventData, uids |-> uids]),
                                !.calls = Append(r.calls, "emitToUids")]
       IN  Step(i, Call(emitted, "loadRoom"))
    /\ UNCHANGED <<now, config, blocked, limit, session, lastAccepted, throttledAt, rooms, messages, started>>

RenameLoadRoom(i) ==
    /\ req[i].pc = "loadRoom"
    /\ Step(i, Done([req[i] EXCEPT !.view = rooms[req[i].roomId]], ""))
    /\ UNCHANGED <<now, config, blocked, limit, session, lastAccepted, throttledAt, rooms, messages, started>>

\* ----------------------------------------------------------------- users
parseInt(str) == CHOOSE n \in AllUids : ToString(n) = str

\* A faulty canKick that lets the owner kick themselves.
canKick_OwnerOnly(uid, callerUid, isOwner) == isOwner

canKick(uid, callerUid, isOwner) == (parseInt(ToString(uid)) # callerUid) /\ isOwner

\* What chatsAPI.users returns once both reads of its Promise.all are in.
UsersResult(r) ==
    [r EXCEPT !.users = [k \in 1..Len(r.members) |->
                            [uid |-> r.members[k],
                             canKick |-> canKick(r.members[k], CallerUid(r.session),
                                                 r.isOwner)]]]

UsersBegin(i, s, roomId) ==
    /\ CanStart(i)
    /\ Start(i, Call([NewReq("users", s) EXCEPT !.roomId = roomId], "users"))
    /\ UNCHANGED <<now, config, blocked, limit, session, lastAccepted, throttledAt, rooms, messages>>

UsersIsRoomOwner(i) ==
    /\ req[i].pc = "users" /\ ~req[i].gotOwner
    /\ LET r == [req[i] EXCEPT !.gotOwner = TRUE,
                               !.isOwner = isRoomOwner(CallerUid(req[i].session),
                                                       req[i].roomId)]
       IN  Step(i, IF r.gotUsers THEN Done(UsersResult(r), "") ELSE r)
    /\ UNCHANGED <<now, config, blocked, limit, session, lastAccepted, throttledAt, rooms, messages, started>>

UsersGetUsersInRoom(i) ==
    /\ req[i].pc = "users" /\ ~req[i].gotUsers
    /\ LET r == [req[i] EXCEPT !.gotUsers = TRUE,
                               !.members = getUsersInRoom(req[i].roomId)]
       IN  Step(i, IF r.gotOwner THEN Done(UsersResult(r), "") ELSE r)
    /\ UNCHANGED <<now, config, blocked, limit, session, lastAccepted, throttledAt, rooms, messages, started>>

\* ---------------------------------------------------------------- invite
\* getUserCountInRoom and the capacity test on its result.
\* A faulty capacity test that never finds the room full.
CapacityExceeded_Off(userCount, maxUsers) == FALSE

CapacityExceeded(userCount, maxUsers) == maxUsers # 0 /\ userCount >= maxUsers

\* A faulty invite that goes through the rate limiter as create and post do.
InviteBegin_Throttled(i, s, roomId, uids) ==
    /\ CanStart(i)
    /\ Throttled(s)
    /\ LET r == [NewReq("invite", s) EXCEPT !.roomId = roomId, !.uids = uids,
                                            !.uidsKind = "array"]
       IN  Start(i, IF Throttle(s).exceeded THEN Done(r, ErrTooMany)
                    ELSE Call(r, "getUserCountInRoom"))
    /\ UNCHANGED <<now, config, blocked, limit, rooms, messages>>

InviteBegin(i, s, roomId, uids) ==
    /\ CanStart(i)
    /\ Start(i, Call([NewReq("invite", s) EXCEPT !.roomId = roomId, !.uids = uids,
                                                !.uidsKind = "array"],
                    "getUserCountInRoom"))
    /\ UNCHANGED <<now, config, blocked, limit, session, lastAccepted, throttledAt, rooms, messages>>

InviteUserCount(i) ==
    /\ req[i].pc = "getUserCountInRoom"
    /\ LET r == [req[i] EXCEPT !.userCount = getUserCountInRoom(req[i].roomId)]
       IN  Step(i, IF CapacityExceeded(r.userCount, config.maximumUsersInChatRoom)
                   THEN Done(r, ErrRoomFull)
                   ELSE Call(r, "exists"))
    /\ UNCHANGED <<now, config, blocked, limit, session, lastAccepted, throttledAt, rooms, messages, started>>

\* user.exists resolves, for invite and for kick.
\* A faulty existence test that is content with one existing user.
UidsExist_Any(uids) == uids = <<>> \/ \E k \in 1..Len(uids) : uids[k] \in Users

UidsExist(uids) == \A k \in 1..Len(uids) : uids[k] \in Users

\* A faulty self-leave test that looks at the first id only.
IsSelfLeave_FirstOnly(uids, callerUid) ==
    Len(uids) >= 1 /\ ToString(uids[1]) = ToString(callerUid)

IsSelfLeave(uids, callerUid) ==
    Len(uids) = 1 /\ ToString(uids[1]) = ToString(callerUid)

Exists(i) ==
    /\ req[i].pc = "exists"
    /\ LET r == req[i]
       IN  Step(i, IF ~UidsExist(r.uids) THEN Done(r, ErrNoUser)
                   ELSE IF r.op = "invite"
                   THEN (IF r.uids = <<>> THEN Call(r, "addUsersToRoom")
                         ELSE [Call(r, "canMessageUser") EXCEPT !.pending = 1..Len(r.uids)])
                   ELSE IF IsSelfLeave(r.uids, CallerUid(r.session))
                   THEN Call(r, "leaveRoom")
                   ELSE Call(r, "removeUsersFromRoom"))
    /\ UNCHANGED <<now, config, blocked, limit, session, lastAccepted, throttledAt, rooms, messages, started>>

InviteAddUsersToRoom(i) ==
    /\ req[i].pc = "addUsersToRoom"
    /\ LET r == req[i]
       IN  IF ~RoomExists(r.roomId)
           THEN rooms' = rooms /\ Step(i, Done(r, ErrNotFound))
           ELSE /\ rooms' = [rooms EXCEPT ![r.roomId].members = AddMembers(@, r.uids)]
                /\ Step(i, Call(r, "users"))
    /\ UNCHANGED <<now, config, blocked, limit, session, lastAccepted, throttledAt, messages, started>>

\* ------------------------------------------------------------------ kick
KickBegin(i, s, roomId, uids) ==
    /\ CanStart(i)
    /\ Start(i, Call([NewReq("kick", s) EXCEPT !.roomId = roomId, !.uids = uids,
                                              !.uidsKind = "array"], "exists"))
    /\ UNCHANGED <<now, config, blocked, limit, session, lastAccepted, throttledAt, rooms, messages>>

KickLeaveRoom(i) ==
    /\ req[i].pc = "leaveRoom"
    /\ LET r == req[i]
       IN  IF ~RoomExists(r.roomId)
           THEN rooms' = rooms /\ Step(i, Done(r, ErrNotFound))
           ELSE /\ rooms' = [rooms EXCEPT ![r.roomId].members =
                                RemoveMembers(@, {CallerUid(r.session)})]
                /\ Step(i, Call(r, "users"))
    /\ UNCHANGED <<now, config, blocked, limit, session, lastAccepted, throttledAt, messages, started>>

KickRemoveUsersFromRoom(i) ==
    /\ req[i].pc = "removeUsersFromRoom"
    /\ LET r == req[i]
       IN  IF ~RoomExists(r.roomId)
           THEN rooms' = rooms /\ Step(i, Done(r, ErrNotFound))
           ELSE IF ~isRoomOwner(CallerUid(r.session), r.roomId)
           THEN rooms' = rooms /\ Step(i, Done(r, ErrForbidden))
           ELSE /\ rooms' = [rooms EXCEPT ![r.roomId].members =
                                RemoveMembers(@, Range(r.uids))]
                /\ Step(i, Call(r, "users"))
    /\ UNCHANGED <<now, config, blocked, limit, session, lastAccepted, throttledAt, messages, started>>

\* ------------------------------------------- create and post under the clock
ThrottleUids == {<<2>>, <<3>>}

ThrottleSlots == {1, 2}

InitThrottle == InitWith(DelayChoices, {0}, BlockedChoices, MaxAttempts)

NextThrottle ==
    \/ Tick
    \/ \E i \in ThrottleSlots, s \in Sessions, kind \in UidsKinds, uids \in ThrottleUids \cup {<<>>} :
          (kind = "array" <=> uids # <<>>) /\ CreateBegin(i, s, kind, uids)
    \/ \E i \in ThrottleSlots, k \in 1..2 : CheckDone(i, k)
    \/ \E i \in ThrottleSlots : CreateNewRoom(i)
    \/ \E i \in ThrottleSlots : CreateGetRoomData(i)
    \/ \E i \in ThrottleSlots, s \in Sessions, d \in ThrottlePostInputs :
          PostBegin(i, s, d[1], d[2], d[3])
    \/ \E i \in ThrottleSlots, outcome \in HookOutcomes : PostHook(i, outcome)
    \/ \E i \in ThrottleSlots : PostCanMessageRoom(i)
    \/ \E i \in ThrottleSlots, ok \in BOOLEAN : PostSendMessage(i, ok)

SpecThrottle == InitThrottle /\ [][NextThrottle]_vars

\* ------------------------------------------------ rooms and their members
RoomSlots == {1}

InitRooms == InitWith({0}, MaxUsersChoices, BlockedChoices, MaxOps)

NextRooms ==
    \/ \E i \in RoomSlots, s \in Sessions, kind \in UidsKinds, uids \in UidLists :
          CreateBegin(i, s, kind, uids)
    \/ \E i \in RoomSlots, k \in 1..2 : CheckDone(i, k)
    \/ \E i \in RoomSlots : CreateNewRoom(i)
    \/ \E i \in RoomSlots : CreateGetRoomData(i)
    \/ \E i \in RoomSlots, s \in Sessions, roomId \in RoomIds : UsersBegin(i, s, roomId)
    \/ \E i \in RoomSlots : UsersIsRoomOwner(i)
    \/ \E i \in RoomSlots : UsersGetUsersInRoom(i)
    \/ \E i \in RoomSlots, s \in Sessions, roomId \in RoomIds, uids \in UidLists :
          InviteBegin(i, s, roomId, uids)
    \/ \E i \in RoomSlots : InviteUserCount(i)
    \/ \E i \in RoomSlots : Exists(i)
    \/ \E i \in RoomSlots : InviteAddUsersToRoom(i)
    \/ \E i \in RoomSlots, s \in Sessions, roomId \in RoomIds, uids \in UidLists :
          KickBegin(i, s, roomId, uids)
    \/ \E i \in RoomSlots : KickLeaveRoom(i)
    \/ \E i \in RoomSlots : KickRemoveUsersFromRoom(i)

SpecRooms == InitRooms /\ [][NextRooms]_vars

\* ------------------------------------- a post racing a kick of its sender
RaceSlots == {1, 2}

RaceOps == MaxOps + 1

RaceUids == {<<2>>}

RacePostInputs == {<<1, "hi", TRUE>>}

InitRace == InitWith({0}, {0}, BlockedChoices, RaceOps)

NextRace ==
    \/ \E i \in RaceSlots, uids \in RaceUids : CreateBegin(i, 1, "array", uids)
    \/ \E i \in RaceSlots, k \in 1..1 : CheckDone(i, k)
    \/ \E i \in RaceSlots : CreateNewRoom(i)
    \/ \E i \in RaceSlots : CreateGetRoomData(i)
    \/ \E i \in RaceSlots, d \in RacePostInputs : PostBegin(i, 2, d[1], d[2], d[3])
    \/ \E i \in RaceSlots, outcome \in HookOutcomes : PostHook(i, outcome)
    \/ \E i \in RaceSlots : PostCanMessageRoom(i)
    \/ \E i \in RaceSlots, ok \in BOOLEAN : PostSendMessage(i, ok)
    \/ \E i \in RaceSlots, s \in Sessions, roomId \in RoomIds, uids \in RaceUids :
          KickBegin(i, s, roomId, uids)
    \/ \E i \in RaceSlots : Exists(i)
    \/ \E i \in RaceSlots : KickLeaveRoom(i)
    \/ \E i \in RaceSlots : KickRemoveUsersFromRoom(i)

SpecRace == InitRace /\ [][NextRace]_vars

\* ------------------------------------------- a session that keeps retrying
RetrySlots == {1}

RetryOps == MaxAttempts + 1

RetryDelays == {d \in DelayChoices : d > 0}

RetryPostInputs == {<<1, "", TRUE>>}

InitRetry == InitWith(RetryDelays, {0}, BlockedChoices, RetryOps)

NextRetry ==
    \/ Tick
    \/ \E i \in RetrySlots, s \in Sessions : CreateBegin(i, s, "undefined", <<>>)
    \/ \E i \in RetrySlots, s \in Sessions, d \in RetryPostInputs :
          PostBegin(i, s, d[1], d[2], d[3])
    \/ \E i \in RetrySlots, outcome \in HookOutcomes : PostHook(i, outcome)

SpecRetry == InitRetry /\ [][NextRetry]_vars

\* ------------------------------- managing a room from concurrent requests
ManageSlots == {1, 2}

ManageOps == MaxOps + 1

ManageDelays == {d \in DelayChoices : d > 0}

ManageMaxUsers == {n \in MaxUsersChoices : n > 0}

ManageCreateUids == {<<>>, <<2>>}

ManageInviteUids == {<<2>>, <<3>>}

ManageKickUids == {<<2>>}

InitManage == InitWith(ManageDelays, ManageMaxUsers, BlockedChoices, ManageOps)

NextManage ==
    \/ \E i \in ManageSlots, uids \in ManageCreateUids : CreateBegin(i, 1, "array", uids)
    \/ \E i \in ManageSlots, k \in 1..1 : CheckDone(i, k)
    \/ \E i \in ManageSlots : CreateNewRoom(i)
    \/ \E i \in ManageSlots : CreateGetRoomData(i)
    \/ \E i \in ManageSlots, s \in Sessions, roomId \in RoomIds, name \in RoomNames :
          RenameBegin(i, s, roomId, name)
    \/ \E i \in ManageSlots, ok \in BOOLEAN : RenameRoom(i, ok)
    \/ \E i \in ManageSlots : RenameGetUidsInRoom(i)
    \/ \E i \in ManageSlots : RenameLoadRoom(i)
    \/ \E i \in ManageSlots, s \in Sessions, roomId \in RoomIds : UsersBegin(i, s, roomId)
    \/ \E i \in ManageSlots : UsersIsRoomOwner(i)
    \/ \E i \in ManageSlots : UsersGetUsersInRoom(i)
    \/ \E i \in ManageSlots, s \in Sessions, roomId \in RoomIds, uids \in ManageInviteUids :
          InviteBegin(i, s, roomId, uids)
    \/ \E i \in ManageSlots : InviteUserCount(i)
    \/ \E i \in ManageSlots : Exists(i)
    \/ \E i \in ManageSlots : InviteAddUsersToRoom(i)
    \/ \E i \in ManageSlots, s \in Sessions, roomId \in RoomIds, uids \in ManageKickUids :
          KickBegin(i, s, roomId, uids)
    \/ \E i \in ManageSlots : KickLeaveRoom(i)
    \/ \E i \in ManageSlots : KickRemoveUsersFromRoom(i)

SpecManage == InitManage /\ [][NextManage]_vars

\* ----------------------------------------------------- every handler at once
Next == NextThrottle \/ NextRooms \/ NextRace \/ NextRetry \/ NextManage

Spec == Init /\ [][Next]_vars

\* ======================================================================
\* Properties
\* ======================================================================
\* The records of the requests that start, and of those that end, in a step.
Begun == {r \in {resp'} \cup {req'[i] : i \in Slots} :
             started' = started + 1 /\ r.id = started'}

Ended == {r \in {resp'} : r # resp /\ r.pc = "done"}

IsAttempt(r) == r.op \in {"create", "post"}

RateLimited(r) == r.pc = "done" /\ r.error = ErrTooMany

\* The attempt made now on session s falls inside the window opened by the
\* session's last accepted attempt.
InWindow(s) ==
    /\ lastAccepted[s] # Undefined
    /\ now - lastAccepted[s] < config.chatMessageDelay

UidsOf(users) == {users[k].uid : k \in 1..Len(users)}

HasBlocked(r) ==
    \E k \in 1..Len(r.uids) : ~canMessageUser(CallerUid(r.session), r.uids[k])

\* C1: a create or post attempted less than chatMessageDelay after the
\* session's last accepted attempt is rejected with the rate-limit error at
\* once, having called no collaborator, and leaves the session's
\* lastChatMessageTime, the rooms and the messages as they were.
C1_ThrottledAttemptChangesNothing ==
    [][\A r \in Begun :
          (IsAttempt(r) /\ InWindow(r.session))
          => /\ RateLimited(r)
             /\ r.calls = <<>>
             /\ session' = session
             /\ rooms' = rooms
             /\ messages' = messages]_vars

C1_Witness ==
    /\ IsAttempt(resp) /\ RateLimited(resp)
    /\ lastAccepted[resp.session] # Undefined
    /\ resp.at - lastAccepted[resp.session] < config.chatMessageDelay
    /\ session[resp.session] = resp.before
    /\ session[resp.session] # resp.at

\* C2: with maximumUsersInChatRoom = N > 0, an invite that succeeds leaves at
\* most N members in the room (an invite that would bring the membership
\* above N is rejected).
C2_InviteRespectsCapacity ==
    (/\ resp.op = "invite" /\ resp.pc = "done" /\ resp.error = ""
     /\ config.maximumUsersInChatRoom > 0)
    => Len(rooms[resp.roomId].members) <= config.maximumUsersInChatRoom

\* C3: a create with an invitee that fails canMessageUser ends with the
\* Forbidden error, never calls newRoom, and none of its steps changes a room,
\* in whichever order its checks complete.
C3_BlockedCreateMakesNoRoom ==
    [][/\ \A r \in Ended :
             (r.op = "create" /\ HasBlocked(r))
             => r.error = ErrForbidden /\ "newRoom" \notin Range(r.calls)
       /\ \A r \in Begun : (r.op = "create" /\ HasBlocked(r)) => rooms' = rooms
       /\ \A i \in Slots :
             (req[i].op = "create" /\ HasBlocked(req[i]) /\ req'[i] # req[i])
             => rooms' = rooms]_vars

C3_Witness ==
    /\ resp.op = "create" /\ resp.pc = "done" /\ resp.error = ErrForbidden
    /\ Len(resp.uids) = 2
    /\ canMessageUser(CallerUid(resp.session), resp.uids[1])
    /\ ~canMessageUser(CallerUid(resp.session), resp.uids[2])
    /\ \A r \in RoomIds : rooms[r] = NoRoom

\* C4: a kick of existing users by a member of the room succeeds and removes
\* the actor when the set of targets is exactly {actor}, whoever owns the room;
\* with any other set of targets a non-owner gets Forbidden and the
\* membership stays as it was.
C4_SelfKickAlwaysSucceeds ==
    [][\A r \in Ended :
          (/\ r.op = "kick" /\ UidsExist(r.uids) /\ RoomExists(r.roomId)
           /\ CallerUid(r.session) \in Range(rooms[r.roomId].members))
          => IF Range(r.uids) = {CallerUid(r.session)}
             THEN /\ r.error = ""
                  /\ CallerUid(r.session) \notin Range(rooms'[r.roomId].members)
             ELSE ~isRoomOwner(CallerUid(r.session), r.roomId)
                  => r.error = ErrForbidden /\ rooms' = rooms]_vars

\* C5: the owner of every active room is a member of it.
C5_OwnerIsMember ==
    \A r \in RoomIds : RoomExists(r) => rooms[r].owner \in Range(rooms[r].members)

\* C6: in every user list returned by users, invite or kick, a record has
\* canKick exactly when its uid is not the viewer's and the viewer owns the
\* room.
C6_CanKickIffOwnerAndOther ==
    (resp.op \in {"users", "invite", "kick"} /\ resp.pc = "done" /\ resp.error = "")
    => \A k \in 1..Len(resp.users) :
          resp.users[k].canKick
          <=> /\ resp.users[k].uid # CallerUid(resp.session)
              /\ RoomExists(resp.roomId)
              /\ rooms[resp.roomId].owner = CallerUid(resp.session)

C6_Witness ==
    /\ resp.op = "users" /\ resp.pc = "done" /\ resp.error = ""
    /\ \E k \in 1..Len(resp.users) : resp.users[k].canKick
    /\ \E k \in 1..Len(resp.users) :
          ~resp.users[k].canKick /\ resp.users[k].uid = CallerUid(resp.session)

\* C7: the list a successful invite returns holds every invited id, the list
\* a successful kick returns holds none of the kicked ids, and each list is
\* the room's membership after the operation's own change.
C7_ListReflectsMutation ==
    (resp.op \in {"invite", "kick"} /\ resp.pc = "done" /\ resp.error = "")
    => /\ [k \in 1..Len(resp.users) |-> resp.users[k].uid] = rooms[resp.roomId].members
       /\ resp.op = "invite" => Range(resp.uids) \subseteq UidsOf(resp.users)
       /\ resp.op = "kick" => Range(resp.uids) \cap UidsOf(resp.users) = {}

C7_Witness ==
    /\ resp.op = "invite" /\ resp.pc = "done" /\ resp.error = ""
    /\ resp.uids # <<>>
    /\ Len(resp.users) = resp.userCount + Len(resp.uids)

\* C8: of two create/post requests on one session that start less than
\* chatMessageDelay apart, at most one passes the rate limiter, and the one
\* that is throttled saw the time the other wrote and wrote nothing.
C8_AtMostOnePasses ==
    /\ \A i, j \in Slots :
          (/\ i # j /\ IsAttempt(req[i]) /\ IsAttempt(req[j])
           /\ req[i].session = req[j].session /\ req[i].at <= req[j].at)
          => req[j].at - req[i].at >= config.chatMessageDelay
    /\ \A i \in Slots :
          (/\ IsAttempt(req[i]) /\ IsAttempt(resp)
           /\ req[i].session = resp.session /\ req[i].id < resp.id
           /\ resp.at - req[i].at < config.chatMessageDelay)
          => /\ RateLimited(resp)
             /\ resp.before = req[i].at
             /\ session[resp.session] = req[i].at

C8_Witness ==
    \E i \in Slots :
       /\ IsAttempt(req[i]) /\ IsAttempt(resp)
       /\ req[i].session = resp.session /\ req[i].id < resp.id
       /\ resp.at - req[i].at < config.chatMessageDelay
       /\ RateLimited(resp)

\* C9 as stated: a create or post that ends in an error leaves the session's
\* lastChatMessageTime at the value it had before the request.
C9_ErrorLeavesTimeUnchanged ==
    [][\A r \in Ended :
          (IsAttempt(r) /\ r.error # "") => session'[r.session] = r.before]_vars

\* C9 as amended: lastChatMessageTime is the time of the session's last
\* attempt that passed the rate limiter.  An attempt rejected as rate-limited
\* leaves it unchanged; every other attempt sets it to the time of the
\* attempt, and no later step of the request, failing or not, changes it.
C9_TimeOfLastPassedAttempt ==
    [][/\ \A r \in Begun :
             IsAttempt(r)
             => session' = IF RateLimited(r) THEN session
                           ELSE [session EXCEPT ![r.session] = now]
       /\ session' # session => \E r \in Begun : IsAttempt(r) /\ ~RateLimited(r)]_vars

C9_Witness ==
    /\ IsAttempt(resp) /\ resp.pc = "done"
    /\ resp.error \notin {"", ErrTooMany}
    /\ "hooks.fire" \in Range(resp.calls)
    /\ session[resp.session] = resp.at
    /\ resp.before # resp.at

\* C10: create and post share one throttle per session.  An attempt on a
\* session is rejected as rate-limited exactly when it is made less than
\* chatMessageDelay after that session's last accepted create or post,
\* whatever it targets, and it touches the field of no other session.
C10_OneThrottlePerSession ==
    [][\A r \in Begun :
          IsAttempt(r)
          => /\ RateLimited(r) <=> InWindow(r.session)
             /\ \A s \in Sessions \ {r.session} : session'[s] = session[s]]_vars

C10_Witness ==
    \E i \in Slots :
       /\ req[i].op = "create" /\ resp.op = "post"
       /\ req[i].session = resp.session /\ req[i].id < resp.id
       /\ resp.at - req[i].at < config.chatMessageDelay
       /\ RateLimited(resp) /\ resp.roomId = 2
       /\ \E s \in Sessions \ {resp.session} : session[s] = Undefined

\* C11: every message is persisted for a room its sender belongs to.
\* sendMessage is given the caller's own uid and the roomId, as rewritten by
\* the hook, that canMessageRoom passed, and the sender is a member of that
\* room at the moment the message is persisted, however the post interleaves
\* with a kick or a self-leave of the sender.
C11_SenderIsMemberWhenPersisted ==
    [][\A i \in Slots :
          (req[i].pc = "sendMessage" /\ messages' # messages)
          => /\ messages' \ messages =
                   {[uid |-> CallerUid(req[i].session), roomId |-> req[i].roomId,
                     content |-> req[i].message]}
             /\ "canMessageRoom" \in Range(req[i].calls)
             /\ RoomExists(req[i].roomId)
             /\ CallerUid(req[i].session) \in Range(rooms[req[i].roomId].members)]_vars

\* C12: a create whose uids is absent, is not a list or is the empty list
\* fails with the invalid-request error and creates no room.
C12_MalformedUidsRejected ==
    (/\ resp.op = "create" /\ resp.pc = "done" /\ ~RateLimited(resp)
     /\ (resp.uidsKind # "array" \/ resp.uids = <<>>))
    => resp.error = ErrWrongType /\ resp.roomId = 0

\* The request in flight that takes a step, if one does.
Stepping == {req[i] : i \in {j \in Slots : req[j].pc # "idle" /\ req'[j] # req[j]}}

NamesUnknownUser(r) == \E k \in 1..Len(r.uids) : r.uids[k] \notin Users

\* C13 as stated: an invite or a kick naming at least one id that is no
\* existing user fails with the no-such-user error and changes no membership.
C13_UnknownUserRejected ==
    [][/\ \A r \in Ended :
             (r.op \in {"invite", "kick"} /\ NamesUnknownUser(r)) => r.error = ErrNoUser
       /\ \A r \in Stepping :
             (r.op \in {"invite", "kick"} /\ NamesUnknownUser(r)) => rooms' = rooms]_vars

\* C13 as amended: a kick naming an id that is no existing user fails with the
\* no-such-user error; so does an invite, unless the room is already at its
\* maximum, in which case it fails with the room-full error before the ids
\* are looked at.  Either way no membership changes.
C13_UnknownUserOrRoomFull ==
    [][/\ \A r \in Ended :
             (r.op \in {"invite", "kick"} /\ NamesUnknownUser(r))
             => r.error = IF /\ r.op = "invite"
                             /\ config.maximumUsersInChatRoom > 0
                             /\ getUserCountInRoom(r.roomId) >= config.maximumUsersInChatRoom
                          THEN ErrRoomFull ELSE ErrNoUser
       /\ \A r \in Stepping :
             (r.op \in {"invite", "kick"} /\ NamesUnknownUser(r)) => rooms' = rooms]_vars

C13_Witness ==
    /\ resp.op = "invite" /\ resp.pc = "done" /\ resp.error = ErrNoUser
    /\ \E k \in 1..Len(resp.uids) : resp.uids[k] \in Users
    /\ \E k \in 1..Len(resp.uids) : resp.uids[k] \notin Users
    /\ RoomExists(resp.roomId)
    /\ config.maximumUsersInChatRoom > 0
    /\ Range(resp.uids) \cap Range(rooms[resp.roomId].members) = {}

\* The collaborators post calls, in the order of its source.
PostCalls ==
    <<"hooks.fire", "canMessageRoom", "sendMessage", "notifyUsersInRoom", "updateOnlineUsers">>

IsPrefix(p, q) == Len(p) <= Len(q) /\ \A k \in 1..Len(p) : p[k] = q[k]

\* The post r, as the hook left it, lacks a required field.
LacksField(r) == r.roomId = 0 \/ r.message = "" \/ ~r.ip

\* C14 as stated: post checks canMessageRoom before it validates the required
\* fields, so a post that lacks a required field and comes from a non-member
\* of the room fails with Forbidden.
C14_PermissionBeforeValidation ==
    [][\A r \in Ended :
          (r.op = "post" /\ LacksField(r) /\ r.error \notin {ErrTooMany, ErrHook})
          => /\ "canMessageRoom" \in Range(r.calls)
             /\ ~canMessageRoom(CallerUid(r.session), r.roomId)
                => r.error = ErrForbidden]_vars

\* C14 as amended: post runs rate limit, hook, required-field validation,
\* canMessageRoom, persistence, in that order.  A post that lacks a required
\* field after the hook fails with the missing-data error without
\* canMessageRoom being called, member or not; Forbidden is the outcome only
\* of a complete post.
C14_ValidationBeforePermission ==
    [][\A r \in Ended :
          r.op = "post"
          => /\ IsPrefix(r.calls, PostCalls)
             /\ RateLimited(r) <=> r.calls = <<>>
             /\ (LacksField(r) /\ r.error \notin {ErrTooMany, ErrHook})
                => r.error = ErrMissing /\ r.calls = <<"hooks.fire">>
             /\ "canMessageRoom" \in Range(r.calls) => ~LacksField(r)
             /\ r.error = ErrForbidden
                => /\ r.calls = <<"hooks.fire", "canMessageRoom">>
                   /\ ~canMessageRoom(CallerUid(r.session), r.roomId)]_vars

C14_Witness ==
    /\ resp.op = "post" /\ resp.pc = "done" /\ resp.error = ErrMissing
    /\ resp.message = "" /\ resp.calls = <<"hooks.fire">>
    /\ RoomExists(resp.roomId)
    /\ CallerUid(resp.session) \notin Range(rooms[resp.roomId].members)

Notified(r) == "notifyUsersInRoom" \in Range(r.calls)

MarkedOnline(r) == "updateOnlineUsers" \in Range(r.calls)

\* C15: post calls notifyUsersInRoom and updateOnlineUsers only after the
\* message has been persisted successfully.  A post that fails, at whichever
\* step, has notified nobody and marked nobody online, and no post in flight
\* has; a post that succeeds has persisted its message and then made both
\* calls.
C15_NotifyOnlyAfterPersistence ==
    [][/\ \A r \in Ended :
             r.op = "post"
             => /\ r.error # "" => ~Notified(r) /\ ~MarkedOnline(r)
                /\ r.error = ""
                   => /\ r.calls = PostCalls
                      /\ [uid |-> CallerUid(r.session), roomId |-> r.roomId,
                          content |-> r.message] \in messages'
       /\ \A i \in Slots : ~Notified(req'[i]) /\ ~MarkedOnline(req'[i])]_vars

C15_Witness ==
    /\ resp.op = "post" /\ resp.pc = "done" /\ resp.error = ErrStore
    /\ resp.calls = <<"hooks.fire", "canMessageRoom", "sendMessage">>
    /\ messages = {}

\* The room of the invite r is at its maximum.
RoomIsFull(r) ==
    /\ config.maximumUsersInChatRoom > 0
    /\ getUserCountInRoom(r.roomId) >= config.maximumUsersInChatRoom

\* C16: invite checks the capacity, then the existence of the invitees, then
\* canMessageUser.  An invite that fails more than one check reports the
\* first of them: room-full, else no-such-user, else Forbidden; and
\* canMessageUser is called only when the capacity and existence checks have
\* passed.
C16_InviteChecksInOrder ==
    [][\A r \in Ended :
          r.op = "invite"
          => /\ r.error # ""
                => r.error = IF RoomIsFull(r) THEN ErrRoomFull
                             ELSE IF NamesUnknownUser(r) THEN ErrNoUser
                             ELSE IF HasBlocked(r) THEN ErrForbidden
                             ELSE ErrNotFound
             /\ r.error = ErrRoomFull => r.calls = <<"getUserCountInRoom">>
             /\ r.error = ErrNoUser => r.calls = <<"getUserCountInRoom", "exists">>
             /\ "canMessageUser" \in Range(r.calls)
                => /\ r.calls[1] = "getUserCountInRoom" /\ r.calls[2] = "exists"
                   /\ r.calls[3] = "canMessageUser"
                   /\ ~NamesUnknownUser(r)
                   /\ ~(config.maximumUsersInChatRoom > 0
                        /\ r.userCount >= config.maximumUsersInChatRoom)
             /\ r.error = "" => ~NamesUnknownUser(r) /\ ~HasBlocked(r)]_vars

C16_Witness ==
    /\ resp.op = "invite" /\ resp.pc = "done" /\ resp.error = ErrRoomFull
    /\ NamesUnknownUser(resp)
    /\ \E k \in 1..Len(resp.uids) : resp.uids[k] \in Users
    /\ Len(rooms[resp.roomId].members) = config.maximumUsersInChatRoom

\* C17: a throttled caller cannot extend their own window.  The window the
\* rate limiter keeps for a session is always the one opened by the session's
\* last accepted attempt, whatever rate-limited attempts followed it, and an
\* attempt made chatMessageDelay or more after that accepted attempt passes
\* the rate limiter: a session that keeps retrying is accepted as soon as the
\* clock reaches the end of the window.
C17_RetryDoesNotExtendWindow ==
    [][/\ \A s \in Sessions : session'[s] = lastAccepted'[s]
       /\ \A r \in Begun :
             (/\ IsAttempt(r)
              /\ lastAccepted[r.session] # Undefined
              /\ now >= lastAccepted[r.session] + config.chatMessageDelay)
             => /\ ~RateLimited(r)
                /\ lastAccepted'[r.session] = now]_vars

C17_Witness ==
    /\ IsAttempt(resp) /\ resp.pc = "done" /\ ~RateLimited(resp)
    /\ config.chatMessageDelay > 0
    /\ resp.before # Undefined
    /\ resp.at >= resp.before + config.chatMessageDelay
    /\ throttledAt[resp.session] # Undefined
    /\ resp.before <= throttledAt[resp.session]
    /\ throttledAt[resp.session] < resp.at

\* C18: a rename emits its event only after renameRoom has persisted the new
\* name, and addresses it to exactly the members of the room as they are read
\* after that; a rename whose renameRoom fails emits nothing.  The step that
\* leaves renameRoom without failing has written the name; the step that
\* emits is the one that read the members, and the event carries them and
\* the escaped name; a rename that succeeds has emitted exactly one event.
C18_RenameEventAfterPersistence ==
    [][/\ \A i \in Slots :
             (req[i].pc = "renameRoom" /\ req'[i].id = req[i].id /\ req'[i] # req[i])
             => /\ rooms'[req[i].roomId].name = req[i].name
                /\ req'[i].events = <<>>
       /\ \A i \in Slots :
             (req'[i].id = req[i].id /\ req'[i].events # req[i].events)
             => /\ req[i].calls = <<"renameRoom", "getUidsInRoom">>
                /\ req'[i].events =
                      <<[event |-> "event:chats.roomRename",
                         data |-> [roomId |-> req[i].roomId,
                                   newName |-> escape(req[i].name)],
                         uids |-> rooms[req[i].roomId].members]>>
       /\ \A r \in Ended :
             r.op = "rename"
             => /\ r.error # "" => r.events = <<>> /\ rooms' = rooms
                /\ r.error = "" => Len(r.events) = 1]_vars

\* A rename that has emitted its event to the two members it read, one of
\* whom has left the room since.
C18_Witness ==
    /\ resp.op = "rename" /\ resp.pc = "done" /\ resp.error = ""
    /\ resp.name = "<b>" /\ resp.view.name = "<b>"
    /\ Len(resp.events) = 1
    /\ resp.events[1].data.newName = "&lt;b&gt;"
    /\ resp.events[1].uids = <<1, 2>>
    /\ resp.view.members = <<1>>

\* C19: with maximumUsersInChatRoom = N > 0, concurrent invites never take a
\* room above N members: whatever other invites ran between the capacity read
\* of an invite into an existing room and its membership add, the room has at
\* most N members once the add is done.
C19_ConcurrentInvitesRespectCapacity ==
    [][\A i \in Slots :
          (/\ req[i].op = "invite" /\ req[i].pc = "addUsersToRoom"
           /\ req[i].userCount > 0
           /\ config.maximumUsersInChatRoom > 0)
          => Len(rooms'[req[i].roomId].members) <= config.maximumUsersInChatRoom]_vars

ManagementOps == {"rename", "users", "invite", "kick"}

\* C20: rename, users, invite and kick are not rate-limited.  None of them
\* ever ends with the rate-limit error, whatever the session's
\* lastChatMessageTime, and no step of any of them changes the
\* lastChatMessageTime of any session.
C20_ManagementNotRateLimited ==
    [][/\ \A r \in Ended : r.op \in ManagementOps => r.error # ErrTooMany
       /\ \A r \in Begun \cup Stepping :
             r.op \in ManagementOps => session' = session]_vars

\* An invite that succeeded inside the window in which the session's own
\* create is throttled.
C20_Witness ==
    /\ resp.op = "invite" /\ resp.pc = "done" /\ resp.error = ""
    /\ session[resp.session] # Undefined
    /\ now - session[resp.session] < config.chatMessageDelay
    /\ rooms[resp.roomId].owner = CallerUid(resp.session)
====
